---- MODULE Spec2Model ----
(***************************************************************************)
(* Lifecycle of jesse.models.Order: construction, queue, resubmit, cancel,  *)
(* execute and execute_partially, with the calls each of them makes to the  *)
(* exchange (accounting), the completed-trades store (ledger), the position *)
(* and the notifier.  logger.info, which only writes a line of text when a  *)
(* debug flag is set, is left out.                                          *)
(***************************************************************************)
EXTENDS Integers, Sequences, FiniteSets, TLC

(* ---------------------------------------------------------------- bounds *)
MaxOps == 3
MaxTime == 2

(* ------------------------------------------------------------- constants *)
Null == -1

ACTIVE == "ACTIVE"
QUEUED == "QUEUED"
PARTIALLY_FILLED == "PARTIALLY FILLED"
EXECUTED == "EXECUTED"
CANCELED == "CANCELED"

Statuses == {ACTIVE, QUEUED, PARTIALLY_FILLED, EXECUTED, CANCELED}

Sources == {"", "stream"}

\* the collaborators whose calls are counted over the order's whole life: the
\* exchange (e.on_order_*) and store.completed_trades
Collaborators ==
    {"on_order_submission", "on_order_cancellation", "on_order_execution",
     "add_executed_order"}

VARIABLES
    order,          \* the Order row: its fields
    now,            \* the clock read by jh.now_to_timestamp()
    is_live,        \* jh.is_live()
    ids_generated,  \* how many ids jh.generate_unique_id() has handed out
    last,           \* the last call made on the order and its arguments
    pre,            \* the fields of the order before the last call
    trace,          \* the collaborator calls made by the last call, in order
    raised,         \* whether the last call raised
    calls,          \* how often each collaborator was called so far
    ops             \* the calls made on the order so far: name and status before

vars == <<order, now, is_live, ids_generated, last, pre, trace, raised, calls, ops>>

(* ------------------------------------------------------------ properties *)
is_canceled(o) == o.status = CANCELED

is_active(o) == o.status = ACTIVE

is_queued(o) == o.status = QUEUED

is_executed(o) == o.status = EXECUTED

is_partially_filled(o) == o.status = PARTIALLY_FILLED

is_cancellable(o) == is_active(o) \/ is_partially_filled(o)

Abs(x) == IF x < 0 THEN -x ELSE x

\* jh.prepare_qty: the absolute value, signed by the side
prepare_qty(q, side) == IF side = "sell" THEN -Abs(q) ELSE Abs(q)

remaining_qty(o) == prepare_qty(Abs(o.qty) - Abs(o.filled_qty), o.side)

(* ---------------------------------------------------------- collaborators *)
\* jh.generate_unique_id(): an id that was never handed out before
generate_unique_id(n) == n + 1

Result(o, t, r) == [order |-> o, trace |-> t, raised |-> r]

Count(s, name) == Cardinality({i \in DOMAIN s : s[i] = name})

notify_submission(o, event) ==
    IF event /\ (is_active(o) \/ is_queued(o)) THEN <<"notify">> ELSE <<>>

(* ----------------------------------------------------------- construction *)
\* attrs: the attributes given to the constructor; env: what the ambient
\* configuration answers during the call
\* the constructor stamping created_at even when it was supplied
Order_init_always_stamps(attrs, t, env) ==
    LET o == [attrs EXCEPT !.created_at = t]
        n == IF env.is_live THEN notify_submission(o, env.event) ELSE <<>>
    IN  Result(o, n \o <<"on_order_submission">>, FALSE)

Order_init(attrs, t, env) ==
    LET o == [attrs EXCEPT !.created_at =
                  IF attrs.created_at = Null THEN t ELSE attrs.created_at]
        n == IF env.is_live THEN notify_submission(o, env.event) ELSE <<>>
    IN  Result(o, n \o <<"on_order_submission">>, FALSE)

(* ------------------------------------------------------------------ queue *)
\* queue minting a new id, as resubmit does
queue_new_id(o, env) ==
    LET o1 == [o EXCEPT !.id = o.id + 1, !.status = QUEUED, !.canceled_at = Null]
    IN  Result(o1, notify_submission(o1, env.event), FALSE)

\* queue clearing both timestamps
queue_clears_executed_at(o, env) ==
    LET o1 == [o EXCEPT !.status = QUEUED, !.canceled_at = Null,
                        !.executed_at = Null]
    IN  Result(o1, notify_submission(o1, env.event), FALSE)

queue(o, env) ==
    LET o1 == [o EXCEPT !.status = QUEUED, !.canceled_at = Null]
    IN  Result(o1, notify_submission(o1, env.event), FALSE)

(* --------------------------------------------------------------- resubmit *)
\* resubmit without its status check
resubmit_allowed_any(o) == TRUE

resubmit_allowed(o) == is_queued(o)

\* resubmit keeping the old id
resubmit_fields_same_id(o, newid) ==
    [o EXCEPT !.status = ACTIVE, !.canceled_at = Null]

resubmit_fields(o, newid) ==
    [o EXCEPT !.id = newid, !.status = ACTIVE, !.canceled_at = Null]

resubmit(o, newid, env) ==
    IF ~resubmit_allowed(o)
    THEN Result(o, <<>>, TRUE)
    ELSE LET o1 == resubmit_fields(o, newid)
         IN  Result(o1, notify_submission(o1, env.event), FALSE)

(* ----------------------------------------------------------------- cancel *)
\* cancel checking only for an earlier cancellation
cancel_terminal_guard_canceled_only(o) == is_canceled(o)

cancel_terminal_guard(o) == is_canceled(o) \/ is_executed(o)

\* cancel without the guard for queued orders
cancel_stream_guard_absent(o, source) == FALSE

\* cancel ignoring every cancellation that comes from the stream
cancel_stream_guard_any_status(o, source) == source = "stream"

cancel_stream_guard(o, source) == source = "stream" /\ is_queued(o)

\* cancel forgetting the timestamp
cancel_fields_no_timestamp(o, t) == [o EXCEPT !.status = CANCELED]

cancel_fields(o, t) == [o EXCEPT !.canceled_at = t, !.status = CANCELED]

\* cancel notifying after the exchange was told
cancel_effects_notify_last(silent, env) ==
    LET n == IF ~silent /\ env.is_live /\ env.event THEN <<"notify">> ELSE <<>>
    IN  <<"on_order_cancellation">> \o n

\* cancel telling the exchange only when the notification went through
cancel_effects_needs_notice(silent, env) ==
    LET n == IF ~silent /\ env.is_live /\ env.event THEN <<"notify">> ELSE <<>>
    IN  IF n # <<>> /\ env.failing = "notify" THEN n
        ELSE n \o <<"on_order_cancellation">>

cancel_effects(silent, env) ==
    LET n == IF ~silent /\ env.is_live /\ env.event THEN <<"notify">> ELSE <<>>
    IN  n \o <<"on_order_cancellation">>

cancel(o, silent, source, t, env) ==
    IF cancel_terminal_guard(o) THEN Result(o, <<>>, FALSE)
    ELSE IF cancel_stream_guard(o, source) THEN Result(o, <<>>, FALSE)
    ELSE Result(cancel_fields(o, t), cancel_effects(silent, env), FALSE)

(* ---------------------------------------------------------------- execute *)
\* execute checking only for an earlier execution
execute_terminal_guard_executed_only(o) == is_executed(o)

execute_terminal_guard(o) == is_canceled(o) \/ is_executed(o)

\* execute marking the order as filled with its signed quantity
execute_fields_fill(o, t) ==
    [o EXCEPT !.executed_at = t, !.status = EXECUTED, !.filled_qty = o.qty]

execute_fields(o, t) == [o EXCEPT !.executed_at = t, !.status = EXECUTED]

execution_notice(silent, env) ==
    IF ~silent /\ env.is_live /\ env.event THEN <<"notify">> ELSE <<>>

\* execute treating the position update as part of what silent suppresses
execute_effects_silent_skips_position(silent, env) ==
    execution_notice(silent, env)
        \o <<"add_executed_order", "on_order_execution">>
        \o (IF ~silent /\ env.position THEN <<"_on_executed_order">> ELSE <<>>)

\* execute telling the exchange before the trade store
execute_effects_exchange_first(silent, env) ==
    execution_notice(silent, env)
        \o <<"on_order_execution", "add_executed_order">>
        \o (IF env.position THEN <<"_on_executed_order">> ELSE <<>>)

execute_effects(silent, env) ==
    execution_notice(silent, env)
        \o <<"add_executed_order", "on_order_execution">>
        \o (IF env.position THEN <<"_on_executed_order">> ELSE <<>>)

execute(o, silent, t, env) ==
    IF execute_terminal_guard(o) THEN Result(o, <<>>, FALSE)
    ELSE Result(execute_fields(o, t), execute_effects(silent, env), FALSE)

(* ------------------------------------------------------ execute_partially *)
\* execute_partially keeping the timestamp of an earlier fill
execute_partially_fields_keep_time(o, t) ==
    [o EXCEPT !.executed_at = IF o.executed_at = Null THEN t ELSE o.executed_at,
              !.status = PARTIALLY_FILLED]

execute_partially_fields(o, t) ==
    [o EXCEPT !.executed_at = t, !.status = PARTIALLY_FILLED]

\* execute_partially leaving the trade store out
execute_partially_effects_no_store(silent, env) ==
    execution_notice(silent, env)
        \o (IF env.position THEN <<"_on_executed_order">> ELSE <<>>)

execute_partially_effects(silent, env) ==
    execution_notice(silent, env)
        \o <<"add_executed_order">>
        \o (IF env.position THEN <<"_on_executed_order">> ELSE <<>>)

\* execute_partially with the guard that cancel and execute have
execute_partially_guarded(o, silent, t, env) ==
    IF is_canceled(o) \/ is_executed(o) THEN Result(o, <<>>, FALSE)
    ELSE Result(execute_partially_fields(o, t),
                execute_partially_effects(silent, env), FALSE)

execute_partially(o, silent, t, env) ==
    Result(execute_partially_fields(o, t), execute_partially_effects(silent, env), FALSE)

(* ------------------------------------------------------------ state machine *)
Envs(live) ==
    [is_live : {live}, event : BOOLEAN, position : BOOLEAN]

\* queue, resubmit, cancel and the constructor never look a position up
EnvsNoPosition(live) == {e \in Envs(live) : e.position = FALSE}

Call(op, silent, source, env, t) ==
    [op |-> op, silent |-> silent, source |-> source, env |-> env, at |-> t]

Tally(c, t) == [name \in Collaborators |-> c[name] + Count(t, name)]

\* the attributes a caller may construct an order with
Attributes ==
    {[id |-> 1, symbol |-> "BTC-USDT", exchange |-> "Sandbox", type |-> "LIMIT",
      side |-> IF q < 0 THEN "sell" ELSE "buy",
      qty |-> q, filled_qty |-> f, price |-> 100, status |-> s,
      created_at |-> c, executed_at |-> Null, canceled_at |-> Null] :
        q \in {-2, 1}, f \in 0..2, s \in {ACTIVE, QUEUED},
        c \in {Null, 0}}

Init ==
    \E attrs \in {a \in Attributes : a.filled_qty <= Abs(a.qty)},
       live \in BOOLEAN :
      \E env \in EnvsNoPosition(live) :
        LET r == Order_init(attrs, 1, env) IN
        /\ order = r.order
        /\ now = 1
        /\ is_live = live
        /\ ids_generated = 1
        /\ last = Call("__init__", FALSE, "", env, 1)
        /\ pre = attrs
        /\ trace = r.trace
        /\ raised = r.raised
        /\ calls = Tally([name \in Collaborators |-> 0], r.trace)
        /\ ops = <<>>

\* the outcome r of the call c replaces the order and is recorded
Apply(c, r) ==
    /\ Len(ops) < MaxOps
    /\ order' = r.order
    /\ pre' = order
    /\ last' = c
    /\ trace' = r.trace
    /\ raised' = r.raised
    /\ calls' = Tally(calls, r.trace)
    /\ ops' = Append(ops, [op |-> c.op, from |-> order.status])

Tick ==
    /\ now < MaxTime
    /\ now' = now + 1
    /\ UNCHANGED <<order, is_live, ids_generated, last, pre, trace, raised, calls, ops>>

Queue ==
    \E env \in EnvsNoPosition(is_live) :
        /\ Apply(Call("queue", FALSE, "", env, now), queue(order, env))
        /\ UNCHANGED <<now, is_live, ids_generated>>

Resubmit ==
    \E env \in EnvsNoPosition(is_live) :
        LET newid == generate_unique_id(ids_generated) IN
        /\ Apply(Call("resubmit", FALSE, "", env, now), resubmit(order, newid, env))
        /\ ids_generated' = IF resubmit_allowed(order) THEN newid ELSE ids_generated
        /\ UNCHANGED <<now, is_live>>

Cancel ==
    \E silent \in BOOLEAN, source \in Sources, env \in EnvsNoPosition(is_live) :
        /\ Apply(Call("cancel", silent, source, env, now),
                 cancel(order, silent, source, now, env))
        /\ UNCHANGED <<now, is_live, ids_generated>>

Execute ==
    \E silent \in BOOLEAN, env \in Envs(is_live) :
        /\ Apply(Call("execute", silent, "", env, now), execute(order, silent, now, env))
        /\ UNCHANGED <<now, is_live, ids_generated>>

ExecutePartially ==
    \E silent \in BOOLEAN, env \in Envs(is_live) :
        /\ Apply(Call("execute_partially", silent, "", env, now),
                 execute_partially(order, silent, now, env))
        /\ UNCHANGED <<now, is_live, ids_generated>>

Next == Tick \/ Queue \/ Resubmit \/ Cancel \/ Execute \/ ExecutePartially

Spec == Init /\ [][Next]_vars

TypeOK ==
    /\ order.status \in Statuses
    /\ now \in 1..MaxTime
    /\ Len(ops) <= MaxOps
(* ------------------------------------------------- failing collaborators *)
(* Spec lets every collaborator call return.  SpecFailing lets one         *)
(* collaborator fail during a call: last.env.failing names it.  No method   *)
(* of Order catches an exception, and every method assigns its fields       *)
(* before its first collaborator call, so a failure ends the method after   *)
(* the failing call with the fields already assigned.                       *)

\* notify(msg) reports its own failures and returns: it never raises
notifier_raises(failing) == FALSE

raises(failing) ==
    IF failing = "notify" THEN notifier_raises(failing) ELSE failing # ""

First(s, name) ==
    CHOOSE i \in DOMAIN s : s[i] = name /\ \A j \in 1..(i - 1) : s[j] # name

\* a method undoing its assignments when a collaborator fails
propagate_rolls_back(o, r, failing) ==
    IF raises(failing) /\ Count(r.trace, failing) > 0
    THEN Result(o, SubSeq(r.trace, 1, First(r.trace, failing)), TRUE)
    ELSE r

\* o: the order before the call; r: the outcome of the call had every
\* collaborator returned
propagate(o, r, failing) ==
    IF raises(failing) /\ Count(r.trace, failing) > 0
    THEN Result(r.order, SubSeq(r.trace, 1, First(r.trace, failing)), TRUE)
    ELSE r

EnvsFailing(live, positions, names) ==
    [is_live : {live}, event : BOOLEAN, position : positions, failing : names]

\* qty, filled_qty and created_at decide no branch of any method: the orders
\* of SpecFailing are sell orders with the defaults for the other two
AttributesFailing ==
    {a \in Attributes : a.qty = -2 /\ a.filled_qty = 0 /\ a.created_at = Null}

\* a constructor that raises leaves no order behind; cancel, execute and
\* execute_partially notify in live mode only, and out of it behave as they do
\* in it with the event switched off, so SpecFailing runs in live mode
InitFailing ==
    \E attrs \in AttributesFailing, live \in {TRUE} :
      \E env \in EnvsFailing(live, {FALSE}, {"", "notify"}) :
        LET r == propagate(attrs, Order_init(attrs, 1, env), env.failing) IN
        /\ order = r.order
        /\ now = 1
        /\ is_live = live
        /\ ids_generated = 1
        /\ last = Call("__init__", FALSE, "", env, 1)
        /\ pre = attrs
        /\ trace = r.trace
        /\ raised = r.raised
        /\ calls = Tally([name \in Collaborators |-> 0], r.trace)
        /\ ops = <<>>

QueueFailing ==
    \E env \in EnvsFailing(is_live, {FALSE}, {"", "notify"}) :
        /\ Apply(Call("queue", FALSE, "", env, now),
                 propagate(order, queue(order, env), env.failing))
        /\ UNCHANGED <<now, is_live, ids_generated>>

ResubmitFailing ==
    \E env \in EnvsFailing(is_live, {FALSE}, {"", "notify"}) :
        LET newid == generate_unique_id(ids_generated) IN
        /\ Apply(Call("resubmit", FALSE, "", env, now),
                 propagate(order, resubmit(order, newid, env), env.failing))
        /\ ids_generated' = IF resubmit_allowed(order) THEN newid ELSE ids_generated
        /\ UNCHANGED <<now, is_live>>

CancelFailing ==
    \E silent \in BOOLEAN, source \in Sources,
       env \in EnvsFailing(is_live, {FALSE}, {"", "notify", "on_order_cancellation"}) :
        /\ Apply(Call("cancel", silent, source, env, now),
                 propagate(order, cancel(order, silent, source, now, env), env.failing))
        /\ UNCHANGED <<now, is_live, ids_generated>>

ExecuteFailing ==
    \E silent \in BOOLEAN,
       env \in EnvsFailing(is_live, BOOLEAN,
                           {"", "notify", "add_executed_order",
                            "on_order_execution", "_on_executed_order"}) :
        /\ Apply(Call("execute", silent, "", env, now),
                 propagate(order, execute(order, silent, now, env), env.failing))
        /\ UNCHANGED <<now, is_live, ids_generated>>

ExecutePartiallyFailing ==
    \E silent \in BOOLEAN,
       env \in EnvsFailing(is_live, BOOLEAN,
                           {"", "notify", "add_executed_order", "_on_executed_order"}) :
        /\ Apply(Call("execute_partially", silent, "", env, now),
                 propagate(order, execute_partially(order, silent, now, env),
                           env.failing))
        /\ UNCHANGED <<now, is_live, ids_generated>>

NextFailing ==
    \/ Tick
    \/ QueueFailing
    \/ ResubmitFailing
    \/ CancelFailing
    \/ ExecuteFailing
    \/ ExecutePartiallyFailing

SpecFailing == InitFailing /\ [][NextFailing]_vars

(* ------------------------------------------------------------- properties *)
Terminal == {EXECUTED, CANCELED}

LastIs(op) == last.op = op

\* C1 as stated: executed_at and canceled_at are never both set, executed_at
\* is set exactly when the status is EXECUTED or PARTIALLY FILLED, and
\* canceled_at is set exactly when the status is CANCELED.
C1_TimestampsMatchStatus ==
    /\ ~(order.executed_at # Null /\ order.canceled_at # Null)
    /\ (order.executed_at # Null <=> order.status \in {EXECUTED, PARTIALLY_FILLED})
    /\ (order.canceled_at # Null <=> order.status = CANCELED)

\* C1 amended: a status of EXECUTED or PARTIALLY FILLED implies executed_at is
\* set, a status of CANCELED implies canceled_at is set, and canceled_at is
\* null while the order is ACTIVE or QUEUED.
C1_StatusImpliesTimestamp ==
    /\ (order.status \in {EXECUTED, PARTIALLY_FILLED} => order.executed_at # Null)
    /\ (order.status = CANCELED => order.canceled_at # Null)
    /\ (order.status \in {ACTIVE, QUEUED} => order.canceled_at = Null)

C1_Witness ==
    /\ LastIs("cancel")
    /\ pre.status = PARTIALLY_FILLED
    /\ order.status = CANCELED
    /\ order.executed_at # Null
    /\ order.canceled_at # Null

\* C2 as stated: once the status is EXECUTED or CANCELED, no call of queue,
\* resubmit, cancel, execute or execute_partially changes any field.
C2_TerminalIsFrozen ==
    (last.op # "__init__" /\ pre.status \in Terminal) => order = pre

\* C2 amended: once the status is EXECUTED or CANCELED, no call of resubmit,
\* cancel or execute changes any field of the order.
C2_TerminalFrozenForGuardedCalls ==
    (last.op \in {"resubmit", "cancel", "execute"} /\ pre.status \in Terminal)
        => order = pre

C2_Witness ==
    /\ LastIs("execute")
    /\ pre.status = CANCELED
    /\ order.status = CANCELED
    /\ order.executed_at = Null

\* C3: cancel and execute on an order that is already CANCELED or EXECUTED
\* return without changing a field and without calling any collaborator.
C3_CancelExecuteIdempotent ==
    (last.op \in {"cancel", "execute"} /\ pre.status \in Terminal)
        => /\ order = pre
           /\ trace = <<>>
           /\ ~raised

\* cancel twice in a row, the first one having cancelled the order
C3_Witness ==
    /\ Len(ops) >= 2
    /\ ops[Len(ops) - 1].op = "cancel"
    /\ ops[Len(ops) - 1].from = ACTIVE
    /\ ops[Len(ops)].op = "cancel"
    /\ ops[Len(ops)].from = CANCELED
    /\ calls["on_order_cancellation"] = 1

\* C4: resubmit on an order that is not QUEUED raises, changes no field and
\* calls no collaborator.
C4_ResubmitRejected ==
    (LastIs("resubmit") /\ pre.status # QUEUED)
        => /\ raised
           /\ order = pre
           /\ trace = <<>>

C4_Witness ==
    /\ LastIs("resubmit")
    /\ pre.status = PARTIALLY_FILLED
    /\ raised

\* C5: resubmit on a QUEUED order gives it a different id, the status ACTIVE
\* and a null canceled_at, and leaves every other field as it was.
C5_ResubmitFromQueued ==
    (LastIs("resubmit") /\ pre.status = QUEUED)
        => /\ ~raised
           /\ order.id # pre.id
           /\ order.status = ACTIVE
           /\ order.canceled_at = Null
           /\ order = [pre EXCEPT !.id = order.id, !.status = ACTIVE,
                                  !.canceled_at = Null]

C5_Witness ==
    /\ LastIs("resubmit")
    /\ pre.status = QUEUED
    /\ pre.executed_at # Null
    /\ order.status = ACTIVE

\* C6: cancel with source 'stream' on a QUEUED order does nothing: the status
\* stays QUEUED, canceled_at stays null, on_order_cancellation is not called.
C6_StreamCancelOfQueuedIsNoop ==
    (LastIs("cancel") /\ last.source = "stream" /\ pre.status = QUEUED)
        => /\ order.status = QUEUED
           /\ order.canceled_at = Null
           /\ Count(trace, "on_order_cancellation") = 0
           /\ order = pre

C6_Witness ==
    /\ LastIs("cancel")
    /\ last.source = "stream"
    /\ pre.status = QUEUED
    /\ order.status = QUEUED

\* C7: cancel from ACTIVE or PARTIALLY FILLED with any source, or from QUEUED
\* with a source other than 'stream', sets the status to CANCELED and
\* canceled_at to the time of the call, and calls on_order_cancellation once.
C7_CancelTakesEffect ==
    (/\ LastIs("cancel")
     /\ \/ pre.status \in {ACTIVE, PARTIALLY_FILLED}
        \/ pre.status = QUEUED /\ last.source # "stream")
        => /\ order.status = CANCELED
           /\ order.canceled_at = last.at
           /\ Count(trace, "on_order_cancellation") = 1

C7_Witness ==
    /\ LastIs("cancel")
    /\ last.source = "stream"
    /\ pre.status = PARTIALLY_FILLED
    /\ order.status = CANCELED
    /\ last.at > 1

EffectiveExecutions ==
    {i \in DOMAIN ops :
        \/ ops[i].op = "execute_partially"
        \/ ops[i].op = "execute" /\ ops[i].from \notin Terminal}

\* C8: add_executed_order is called once by every execute_partially and by
\* every execute made from a status other than EXECUTED and CANCELED, and by
\* no other call; execute_partially and then execute on an ACTIVE order ends
\* EXECUTED with two calls of add_executed_order.
C8_LedgerOncePerExecution ==
    /\ calls["add_executed_order"] = Cardinality(EffectiveExecutions)
    /\ (last.op # "__init__" => Count(trace, "add_executed_order") =
            (IF Len(ops) \in EffectiveExecutions THEN 1 ELSE 0))
    /\ (/\ Len(ops) = 2
        /\ ops[1] = [op |-> "execute_partially", from |-> ACTIVE]
        /\ ops[2].op = "execute")
        => (order.status = EXECUTED /\ calls["add_executed_order"] = 2)

C8_Witness ==
    /\ Len(ops) = 2
    /\ ops[1] = [op |-> "execute_partially", from |-> ACTIVE]
    /\ ops[2].op = "execute"
    /\ calls["add_executed_order"] = 2

\* C9 as stated: execute_partially on an order that is neither EXECUTED nor
\* CANCELED sets the status to PARTIALLY FILLED and executed_at to the time of
\* the call, and makes filled_qty strictly greater in magnitude.
C9_PartialFillIncreasesFilledQty ==
    (LastIs("execute_partially") /\ pre.status \notin Terminal)
        => /\ order.status = PARTIALLY_FILLED
           /\ order.executed_at = last.at
           /\ Abs(order.filled_qty) > Abs(pre.filled_qty)

\* C9 amended: execute_partially on an order that is neither EXECUTED nor
\* CANCELED sets the status to PARTIALLY FILLED and executed_at to the time of
\* the call, and leaves filled_qty, and so the remaining quantity, as it was.
C9_PartialFillKeepsFilledQty ==
    (LastIs("execute_partially") /\ pre.status \notin Terminal)
        => /\ order.status = PARTIALLY_FILLED
           /\ order.executed_at = last.at
           /\ order.filled_qty = pre.filled_qty
           /\ remaining_qty(order) = remaining_qty(pre)

\* a second partial fill, later than the first
C9_Witness ==
    /\ LastIs("execute_partially")
    /\ pre.status = PARTIALLY_FILLED
    /\ pre.executed_at # Null
    /\ order.executed_at > pre.executed_at

\* C10: filled_qty never decreases from one call to the next and stays
\* between 0 and the magnitude of qty.
C10_FilledQtyMonotoneAndBounded ==
    /\ order.filled_qty >= pre.filled_qty
    /\ 0 <= order.filled_qty
    /\ order.filled_qty <= Abs(order.qty)

C10_Witness ==
    /\ LastIs("execute")
    /\ order.status = EXECUTED
    /\ order.qty < 0
    /\ order.filled_qty = 1

\* the calls of a trace that are not notifications
Critical(s) == SelectSeq(s, LAMBDA x : x # "notify")

\* the outcome of the call c made on the order o
Run(c, o, newid) ==
    CASE c.op = "__init__" -> Order_init(o, c.at, c.env)
      [] c.op = "queue" -> queue(o, c.env)
      [] c.op = "resubmit" -> resubmit(o, newid, c.env)
      [] c.op = "cancel" -> cancel(o, c.silent, c.source, c.at, c.env)
      [] c.op = "execute" -> execute(o, c.silent, c.at, c.env)
      [] c.op = "execute_partially" -> execute_partially(o, c.silent, c.at, c.env)

\* C13: constructing an order calls on_order_submission once and sets
\* created_at to the current time only when none was supplied; no later call
\* calls on_order_submission or changes created_at.
C13_SubmissionOnceAtConstruction ==
    /\ calls["on_order_submission"] = 1
    /\ Count(trace, "on_order_submission") = (IF LastIs("__init__") THEN 1 ELSE 0)
    /\ LastIs("__init__") =>
          order.created_at =
              (IF pre.created_at = Null THEN last.at ELSE pre.created_at)
    /\ ~LastIs("__init__") => order.created_at = pre.created_at

\* an order constructed with a created_at, queued and resubmitted since
C13_Witness ==
    /\ LastIs("resubmit")
    /\ ~raised
    /\ order.created_at = 0
    /\ calls["on_order_submission"] = 1

\* C14: queue, cancel, execute and execute_partially leave the id unchanged.
C14_OnlyResubmitChangesId ==
    (last.op \in {"queue", "cancel", "execute", "execute_partially"})
        => order.id = pre.id

\* a queue call on an order that was resubmitted before
C14_Witness ==
    /\ LastIs("queue")
    /\ order.id = 2
    /\ order.status = QUEUED

Announcing == {"__init__", "cancel", "execute", "execute_partially"}

\* C16 as stated: in construction, cancel, execute and execute_partially the
\* notification comes after every exchange, store and position call.
C16_NotificationLast ==
    (last.op \in Announcing)
        => \A i, j \in DOMAIN trace :
              (trace[i] = "notify" /\ trace[j] # "notify") => j < i

\* C16 amended: in construction, cancel, execute and execute_partially the
\* notification comes before every exchange, store and position call.
C16_NotificationFirst ==
    (last.op \in Announcing)
        => \A i, j \in DOMAIN trace :
              (trace[i] = "notify" /\ trace[j] # "notify") => i < j

C16_Witness ==
    /\ LastIs("execute")
    /\ Len(trace) = 4
    /\ trace[1] = "notify"
    /\ trace[4] = "_on_executed_order"

\* C17: execute_partially acts in every status, EXECUTED and CANCELED
\* included: it does not raise, sets the status to PARTIALLY FILLED and
\* executed_at to the time of the call and calls add_executed_order once;
\* execute and cancel change nothing in those two statuses.
C17_PartialFillUnguarded ==
    /\ LastIs("execute_partially")
          => /\ ~raised
             /\ order.status = PARTIALLY_FILLED
             /\ order.executed_at = last.at
             /\ Count(trace, "add_executed_order") = 1
    /\ (last.op \in {"cancel", "execute"} /\ pre.status \in Terminal)
          => order.status = pre.status

\* a partial fill of an executed order, later than its execution
C17_Witness ==
    /\ LastIs("execute_partially")
    /\ pre.status = EXECUTED
    /\ order.status = PARTIALLY_FILLED
    /\ order.executed_at > pre.executed_at

\* C18: queue acts in every status: it sets the status to QUEUED and
\* canceled_at to null, leaves every other field as it was, and calls neither
\* the exchange, the store nor the position.
C18_QueueFromAnyStatus ==
    LastIs("queue")
        => /\ ~raised
           /\ order = [pre EXCEPT !.status = QUEUED, !.canceled_at = Null]
           /\ Critical(trace) = <<>>

\* a canceled order with an earlier partial fill, queued again
C18_Witness ==
    /\ LastIs("queue")
    /\ pre.status = CANCELED
    /\ pre.canceled_at # Null
    /\ order.executed_at # Null
    /\ order.status = QUEUED

\* C19: cancel, execute and execute_partially give the same fields and the
\* same exchange, store and position calls whether silent is set or not.
C19_SilentOnlySuppressesNotice ==
    (last.op \in {"cancel", "execute", "execute_partially"})
        => LET r == Run([last EXCEPT !.silent = ~last.silent], pre, ids_generated)
           IN  /\ r.order = order
               /\ r.raised = raised
               /\ Critical(r.trace) = Critical(trace)

\* a silent execute where a notification was due and a position exists
C19_Witness ==
    /\ LastIs("execute")
    /\ last.silent
    /\ last.env.is_live /\ last.env.event /\ last.env.position
    /\ trace = <<"add_executed_order", "on_order_execution", "_on_executed_order">>

\* C20: as long as queue was never called, the exchange is told at most once
\* that the order's balance is released: on_order_cancellation and
\* on_order_execution together are called at most once.
C20_BalanceReleasedOnce ==
    (\A i \in DOMAIN ops : ops[i].op # "queue")
        => calls["on_order_cancellation"] + calls["on_order_execution"] <= 1

\* the collaborator that fails during the last call was called by it
FailingWasCalled == Count(Run(last, pre, ids_generated).trace, last.env.failing) > 0

\* C11: when the exchange or the trade store fails during cancel, execute or
\* execute_partially, the call raises and the order keeps the status and the
\* timestamp the call had assigned.
C11_FailureKeepsTransition ==
    (/\ last.op \in {"cancel", "execute", "execute_partially"}
     /\ last.env.failing \in
            {"on_order_cancellation", "on_order_execution", "add_executed_order"}
     /\ FailingWasCalled)
        => /\ raised
           /\ trace[Len(trace)] = last.env.failing
           /\ LastIs("cancel") =>
                 order.status = CANCELED /\ order.canceled_at = last.at
           /\ LastIs("execute") =>
                 order.status = EXECUTED /\ order.executed_at = last.at
           /\ LastIs("execute_partially") =>
                 order.status = PARTIALLY_FILLED /\ order.executed_at = last.at

\* the exchange failing while an active order is executed, after a tick
C11_Witness ==
    /\ LastIs("execute")
    /\ last.env.failing = "on_order_execution"
    /\ pre.status = ACTIVE
    /\ raised
    /\ order.status = EXECUTED
    /\ order.executed_at = 2

IsPrefix(s, t) == Len(s) <= Len(t) /\ s = SubSeq(t, 1, Len(s))

\* C15: an execute that takes effect calls add_executed_order, then
\* on_order_execution, then the position's _on_executed_order;
\* execute_partially calls add_executed_order, then _on_executed_order, and
\* never the exchange; a call that returns has called the position exactly
\* when one was found, and a call that raises stops at the failing call.
C15_CollaboratorOrder ==
    /\ (LastIs("execute") /\ pre.status \notin Terminal)
          => /\ IsPrefix(Critical(trace),
                   <<"add_executed_order", "on_order_execution", "_on_executed_order">>)
             /\ ~raised =>
                   Len(Critical(trace)) = (IF last.env.position THEN 3 ELSE 2)
             /\ raised => trace[Len(trace)] = last.env.failing
    /\ LastIs("execute_partially")
          => /\ IF last.env.position
                THEN IsPrefix(Critical(trace),
                         <<"add_executed_order", "_on_executed_order">>)
                ELSE Critical(trace) = <<"add_executed_order">>
             /\ ~raised =>
                   Len(Critical(trace)) = (IF last.env.position THEN 2 ELSE 1)
             /\ raised => trace[Len(trace)] = last.env.failing

C15_Witness ==
    /\ LastIs("execute")
    /\ pre.status = PARTIALLY_FILLED
    /\ ~raised
    /\ Critical(trace) =
          <<"add_executed_order", "on_order_execution", "_on_executed_order">>
====
